---- MODULE Spec2Model ----
(***************************************************************************)
(* Model of the in-memory book store: utils.ts (generateId, the two        *)
(* validators, sanitizeString), types.ts (the error classes), the          *)
(* BookService class and the menu loop of BookCLI.ts.  JavaScript values   *)
(* are tagged records, objects live in a heap of references, the Map is a  *)
(* sequence of (key, reference) entries in insertion order.                *)
(***************************************************************************)
EXTENDS Integers, Sequences, FiniteSets, TLC

\* ------------------------------------------------------------------ bounds
MaxBooks == 2          \* create is not called on a store holding this many
MaxNow == 1            \* the clock Date.now() runs over 0..MaxNow
EpochYear == 0         \* getFullYear() at clock 0
TicksPerYear == 1      \* clock ticks in one calendar year
NumRand == 2           \* distinct outcomes of Math.random()
MaxPageBooks == 5      \* the largest store that is read page by page

\* ------------------------------------------------------- JavaScript values
\* A value is [k, s, h]: k the kind, s the characters of a string, h a
\* number in half units (h = 3 is 1.5), so that non-integers exist.
Str(chars) == [k |-> "str", s |-> chars, h |-> 0]
Num(n) == [k |-> "num", s |-> <<>>, h |-> 2 * n]
Half(twice) == [k |-> "num", s |-> <<>>, h |-> twice]
NaNVal == [k |-> "nan", s |-> <<>>, h |-> 0]
Undefined == [k |-> "undefined", s |-> <<>>, h |-> 0]
Null == [k |-> "null", s |-> <<>>, h |-> 0]
\* the property is not a key of the object at all
Absent == [k |-> "absent", s |-> <<>>, h |-> 0]

\* typeof v
TypeOf(v) ==
  CASE v.k = "str" -> "string"
    [] v.k \in {"num", "nan"} -> "number"
    [] v.k = "null" -> "object"
    [] OTHER -> "undefined"

\* ToBoolean(v): '', 0, NaN, null and undefined are falsy
Truthy(v) ==
  CASE v.k = "str" -> Len(v.s) > 0
    [] v.k = "num" -> v.h # 0
    [] OTHER -> FALSE

\* v !== undefined (a missing property reads as undefined)
IsDefined(v) == v.k \notin {"undefined", "absent"}

\* Number.isInteger(v)
IsInteger(v) == v.k = "num" /\ v.h % 2 = 0

\* String.prototype.trim on a sequence of characters
RECURSIVE TrimLeft(_)
TrimLeft(s) ==
  IF s = <<>> THEN <<>>
  ELSE IF Head(s) = " " THEN TrimLeft(Tail(s)) ELSE s

RECURSIVE TrimRight(_)
TrimRight(s) ==
  IF s = <<>> THEN <<>>
  ELSE IF s[Len(s)] = " " THEN TrimRight(SubSeq(s, 1, Len(s) - 1)) ELSE s

Trim(s) == TrimRight(TrimLeft(s))

\* sanitizeString that returns its input as it is
sanitizeString_NoTrim(input) == Str(input.s)

\* sanitizeString(input)
sanitizeString(input) == Str(Trim(input.s))

\* ------------------------------------------------------------------ errors
\* identifiers: the template string `book_${ts}_${rnd}`, kept as its parts
NoId == [prefix |-> "", ts |-> 0, rnd |-> 0]
\* an identifier the generator never produced
UnknownId == [prefix |-> "nonexistent", ts |-> 0, rnd |-> 0]

NoError == [name |-> "none", rule |-> "", arg |-> 0, id |-> NoId]
\* new ValidationError(message); arg is the year a range message embeds
ValidationError(rule, arg) ==
  [name |-> "ValidationError", rule |-> rule, arg |-> arg, id |-> NoId]
\* new BookNotFoundError(id)
BookNotFoundError(id) ==
  [name |-> "BookNotFoundError", rule |-> "Book with id not found", arg |-> 0, id |-> id]

\* new Date().getFullYear() at clock t
getFullYear(t) == EpochYear + (t \div TicksPerYear)

\* validateCreateBookData with the upper end of the range excluded (>= for >)
validateCreateBookData_ExclusiveEnd(data, t) ==
  IF ~Truthy(data.title) \/ TypeOf(data.title) # "string"
       \/ Len(Trim(data.title.s)) = 0
  THEN ValidationError("Title is required and must be a non-empty string", 0)
  ELSE IF ~Truthy(data.author) \/ TypeOf(data.author) # "string"
            \/ Len(Trim(data.author.s)) = 0
  THEN ValidationError("Author is required and must be a non-empty string", 0)
  ELSE IF TypeOf(data.year) # "number" \/ ~IsInteger(data.year)
  THEN ValidationError("Year must be a valid integer", 0)
  ELSE IF data.year.h < 0 \/ data.year.h >= 2 * getFullYear(t)
  THEN ValidationError("Year must be between 0 and", getFullYear(t))
  ELSE NoError

\* validateCreateBookData with the author check moved before the title check
validateCreateBookData_AuthorFirst(data, t) ==
  IF ~Truthy(data.author) \/ TypeOf(data.author) # "string"
       \/ Len(Trim(data.author.s)) = 0
  THEN ValidationError("Author is required and must be a non-empty string", 0)
  ELSE IF ~Truthy(data.title) \/ TypeOf(data.title) # "string"
            \/ Len(Trim(data.title.s)) = 0
  THEN ValidationError("Title is required and must be a non-empty string", 0)
  ELSE IF TypeOf(data.year) # "number" \/ ~IsInteger(data.year)
  THEN ValidationError("Year must be a valid integer", 0)
  ELSE IF data.year.h < 0 \/ data.year.h > 2 * getFullYear(t)
  THEN ValidationError("Year must be between 0 and", getFullYear(t))
  ELSE NoError

\* validateCreateBookData(data) at clock t: the error thrown, or NoError
validateCreateBookData(data, t) ==
  IF ~Truthy(data.title) \/ TypeOf(data.title) # "string"
       \/ Len(Trim(data.title.s)) = 0
  THEN ValidationError("Title is required and must be a non-empty string", 0)
  ELSE IF ~Truthy(data.author) \/ TypeOf(data.author) # "string"
            \/ Len(Trim(data.author.s)) = 0
  THEN ValidationError("Author is required and must be a non-empty string", 0)
  ELSE IF TypeOf(data.year) # "number" \/ ~IsInteger(data.year)
  THEN ValidationError("Year must be a valid integer", 0)
  ELSE IF data.year.h < 0 \/ data.year.h > 2 * getFullYear(t)
  THEN ValidationError("Year must be between 0 and", getFullYear(t))
  ELSE NoError

\* Object.keys(data).length for an object with these three properties
NumKeys(data) ==
  Cardinality({f \in {"title", "author", "year"} : data[f].k # "absent"})

\* validateUpdateBookData without the range check of the year
validateUpdateBookData_NoRange(data, t) ==
  IF NumKeys(data) = 0
  THEN ValidationError("At least one field must be provided for update", 0)
  ELSE IF IsDefined(data.title)
            /\ (TypeOf(data.title) # "string" \/ Len(Trim(data.title.s)) = 0)
  THEN ValidationError("Title must be a non-empty string", 0)
  ELSE IF IsDefined(data.author)
            /\ (TypeOf(data.author) # "string" \/ Len(Trim(data.author.s)) = 0)
  THEN ValidationError("Author must be a non-empty string", 0)
  ELSE IF IsDefined(data.year)
            /\ (TypeOf(data.year) # "number" \/ ~IsInteger(data.year))
  THEN ValidationError("Year must be a valid integer", 0)
  ELSE NoError

\* validateUpdateBookData(data) at clock t: the error thrown, or NoError
validateUpdateBookData(data, t) ==
  IF NumKeys(data) = 0
  THEN ValidationError("At least one field must be provided for update", 0)
  ELSE IF IsDefined(data.title)
            /\ (TypeOf(data.title) # "string" \/ Len(Trim(data.title.s)) = 0)
  THEN ValidationError("Title must be a non-empty string", 0)
  ELSE IF IsDefined(data.author)
            /\ (TypeOf(data.author) # "string" \/ Len(Trim(data.author.s)) = 0)
  THEN ValidationError("Author must be a non-empty string", 0)
  ELSE IF IsDefined(data.year)
            /\ (TypeOf(data.year) # "number" \/ ~IsInteger(data.year))
  THEN ValidationError("Year must be a valid integer", 0)
  ELSE IF IsDefined(data.year)
            /\ (data.year.h < 0 \/ data.year.h > 2 * getFullYear(t))
  THEN ValidationError("Year must be between 0 and", getFullYear(t))
  ELSE NoError

\* generateId() at clock t when Math.random() yields r
generateId(t, r) == [prefix |-> "book_", ts |-> t, rnd |-> r]

\* ------------------------------------------------------------ heap and Map
VARIABLES
  books,   \* the Map: entries [key, ref] in insertion order
  heap,    \* reference -> object
  now,     \* the clock
  last,    \* the call that ran last and what it handed back
  kept,    \* a reference the caller retained from an earlier call, 0 if none
  call,    \* the call being returned from: its arguments and the store before
  issued,  \* history: how often create has returned each identifier
  cli      \* the front-end: where its menu loop is and what its last action did

vars == <<books, heap, now, last, kept, call, issued, cli>>

\* references: enough for the stored objects, one retained by the caller and
\* the objects one call allocates
Refs == 1..(2 * (IF MaxPageBooks > MaxBooks THEN MaxPageBooks ELSE MaxBooks) + 2)

\* a free heap cell
NoObj == [id |-> NoId, title |-> Undefined, author |-> Undefined, year |-> Undefined]

Range(f) == {f[i] : i \in DOMAIN f}

\* what the store holds: the keys in Map order, each with its record
Stored == [i \in 1..Len(books) |-> [key |-> books[i].key, book |-> heap[books[i].ref]]]

\* this.books.has(key)
MapHas(m, key) == \E i \in 1..Len(m) : m[i].key = key

\* this.books.get(key): the reference, 0 for undefined
MapGet(m, key) ==
  IF MapHas(m, key) THEN (CHOOSE e \in Range(m) : e.key = key).ref ELSE 0

\* this.books.set(key, ref): an existing key keeps its position
MapSet(m, key, ref) ==
  IF MapHas(m, key)
  THEN [i \in 1..Len(m) |-> IF m[i].key = key THEN [key |-> key, ref |-> ref] ELSE m[i]]
  ELSE Append(m, [key |-> key, ref |-> ref])

\* this.books.delete(key): the remaining entries keep their order
RECURSIVE MapDelete(_, _)
MapDelete(m, key) ==
  IF m = <<>> THEN <<>>
  ELSE IF Head(m).key = key THEN MapDelete(Tail(m), key)
  ELSE <<Head(m)>> \o MapDelete(Tail(m), key)

\* the references of the stored objects, in Map order
StoreRefs(m) == [i \in 1..Len(m) |-> m[i].ref]

\* the k-th reference a call allocates: the stored objects are numbered from
\* 1 and the retained one follows them, so every later reference is free
Fresh(k) == (IF kept > Len(books) THEN kept ELSE Len(books)) + k

\* an object literal: a new object at reference r
New(h, r, obj) == [h EXCEPT ![r] = obj]

\* References are opaque: after a call the reachable objects are renumbered
\* in the order stored, retained, returned, and the rest is collected.
RECURSIVE Dedup(_, _)
Dedup(seq, seen) ==
  IF seq = <<>> THEN <<>>
  ELSE IF Head(seq) \in seen \/ Head(seq) = 0 THEN Dedup(Tail(seq), seen)
  ELSE <<Head(seq)>> \o Dedup(Tail(seq), seen \cup {Head(seq)})

Reachable(m, k, ret) == Dedup(StoreRefs(m) \o <<k>> \o ret, {})

Renumber(order, r) ==
  IF r = 0 THEN 0 ELSE CHOOSE i \in 1..Len(order) : order[i] = r

\* ------------------------------------------------------------- BookService
\* what a method does: the Map and heap it leaves, how it ends (out), the
\* error it throws or carries, the records it returns, a number it returns
NoPage ==
  [totalBooks |-> 0, totalPages |-> 0, currentPage |-> 0,
   hasNextPage |-> FALSE, hasPreviousPage |-> FALSE]

Effect(m, h, out, err, ret) ==
  [books |-> m, heap |-> h, out |-> out, err |-> err, ret |-> ret,
   n |-> 0, page |-> NoPage]

\* create that stores the record before it validates the request
createCall_StoreThenValidate(data, r) ==
  LET e == validateCreateBookData(data, now)
      bookRef == Fresh(1)
      copyRef == Fresh(2)
      book == [id |-> generateId(now, r),
               title |-> sanitizeString(data.title),
               author |-> sanitizeString(data.author),
               year |-> data.year]
      h1 == New(heap, bookRef, book)
      h2 == New(h1, copyRef, h1[bookRef])
  IN IF e # NoError
     THEN Effect(MapSet(books, book.id, bookRef), h1, "throw", e, <<>>)
     ELSE Effect(MapSet(books, book.id, bookRef), h2, "book", NoError, <<copyRef>>)

\* create that returns the request's strings as given, not the stored ones
createCall_ReturnsRequest(data, r) ==
  LET e == validateCreateBookData(data, now)
      bookRef == Fresh(1)
      copyRef == Fresh(2)
      book == [id |-> generateId(now, r),
               title |-> sanitizeString(data.title),
               author |-> sanitizeString(data.author),
               year |-> data.year]
      h1 == New(heap, bookRef, book)
      h2 == New(h1, copyRef, [book EXCEPT !.title = data.title, !.author = data.author])
  IN IF e # NoError
     THEN Effect(books, heap, "throw", e, <<>>)
     ELSE Effect(MapSet(books, book.id, bookRef), h2, "book", NoError, <<copyRef>>)

\* create(data) when Math.random() yields r
createCall(data, r) ==
  LET e == validateCreateBookData(data, now)
      bookRef == Fresh(1)
      copyRef == Fresh(2)
      book == [id |-> generateId(now, r),
               title |-> sanitizeString(data.title),
               author |-> sanitizeString(data.author),
               year |-> data.year]
      h1 == New(heap, bookRef, book)
      h2 == New(h1, copyRef, h1[bookRef])
  IN IF e # NoError
     THEN Effect(books, heap, "throw", e, <<>>)
     ELSE Effect(MapSet(books, book.id, bookRef), h2, "book", NoError, <<copyRef>>)

\* safeCreate that lets the exception of create through
safeCreateCall_Rethrows(data, r) ==
  LET c == createCall(data, r)
  IN IF c.out = "throw" THEN c ELSE [c EXCEPT !.out = "success"]

\* safeCreate(data): the Result object in place of the exception
safeCreateCall(data, r) ==
  LET c == createCall(data, r)
  IN IF c.out = "throw"
     THEN [c EXCEPT !.out = "failure"]
     ELSE [c EXCEPT !.out = "success"]

\* findById that hands out the stored object itself
findByIdCall_NoCopy(id) ==
  LET book == MapGet(books, id)
  IN IF book # 0
     THEN Effect(books, heap, "book", NoError, <<book>>)
     ELSE Effect(books, heap, "null", NoError, <<>>)

\* findById that throws for an id that is not stored
findByIdCall_ThrowsNotFound(id) ==
  LET book == MapGet(books, id)
      copyRef == Fresh(1)
  IN IF book # 0
     THEN Effect(books, New(heap, copyRef, heap[book]), "book", NoError, <<copyRef>>)
     ELSE Effect(books, heap, "throw", BookNotFoundError(id), <<>>)

\* findById(id)
findByIdCall(id) ==
  LET book == MapGet(books, id)
      copyRef == Fresh(1)
  IN IF book # 0
     THEN Effect(books, New(heap, copyRef, heap[book]), "book", NoError, <<copyRef>>)
     ELSE Effect(books, heap, "null", NoError, <<>>)

\* Array.from(this.books.values()).map(book => ({ ...book }))
RECURSIVE CopyAll(_, _, _)
CopyAll(h, refs, k) ==
  IF refs = <<>> THEN [heap |-> h, ret |-> <<>>]
  ELSE LET copyRef == Fresh(k)
           rest == CopyAll(New(h, copyRef, h[Head(refs)]), Tail(refs), k + 1)
       IN [heap |-> rest.heap, ret |-> <<copyRef>> \o rest.ret]

\* findAll that leaves the last stored record out
findAllCall_DropsLast ==
  LET c == CopyAll(heap, StoreRefs(books), 1)
  IN Effect(books, c.heap, "list", NoError,
            IF c.ret = <<>> THEN <<>> ELSE SubSeq(c.ret, 1, Len(c.ret) - 1))

\* findAll()
findAllCall ==
  LET c == CopyAll(heap, StoreRefs(books), 1)
  IN Effect(books, c.heap, "list", NoError, c.ret)

\* String.prototype.toLowerCase on the alphabet in use
ToLowerCase(s) == [i \in 1..Len(s) |-> IF s[i] = "A" THEN "a" ELSE IF s[i] = "B" THEN "b" ELSE s[i]]

\* String.prototype.includes
Includes(s, sub) ==
  \E i \in 0..(Len(s) - Len(sub)) : SubSeq(s, i + 1, i + Len(sub)) = sub

\* findByAuthor that searches for the argument with its whitespace
findByAuthorCall_NoTrim(author) ==
  LET normalizedAuthor == ToLowerCase(author)
      all == findAllCall
      Match(v) == Includes(ToLowerCase(v.s), normalizedAuthor)
  IN [all EXCEPT !.ret = SelectSeq(all.ret, LAMBDA r : Match(all.heap[r].author))]

\* findByAuthor(author)
findByAuthorCall(author) ==
  LET normalizedAuthor == Trim(ToLowerCase(author))
      all == findAllCall
      Match(v) == Includes(ToLowerCase(v.s), normalizedAuthor)
  IN [all EXCEPT !.ret = SelectSeq(all.ret, LAMBDA r : Match(all.heap[r].author))]

\* findByTitle(title)
findByTitleCall(title) ==
  LET normalizedTitle == Trim(ToLowerCase(title))
      all == findAllCall
      Match(v) == Includes(ToLowerCase(v.s), normalizedTitle)
  IN [all EXCEPT !.ret = SelectSeq(all.ret, LAMBDA r : Match(all.heap[r].title))]

\* a === b
StrictEquals(a, b) == a.k # "nan" /\ a = b

\* findByYear that stops at the first match
findByYearCall_FirstOnly(year) ==
  LET all == findAllCall
      Match(v) == StrictEquals(v, year)
      found == SelectSeq(all.ret, LAMBDA r : Match(all.heap[r].year))
  IN [all EXCEPT !.ret = IF found = <<>> THEN <<>> ELSE <<Head(found)>>]

\* findByYear(year)
findByYearCall(year) ==
  LET all == findAllCall
      Match(v) == StrictEquals(v, year)
  IN [all EXCEPT !.ret = SelectSeq(all.ret, LAMBDA r : Match(all.heap[r].year))]

\* update that looks the id up before it validates the request
updateCall_LookupFirst(id, data) ==
  LET e == validateUpdateBookData(data, now)
      existingBook == MapGet(books, id)
      updatedRef == Fresh(1)
      copyRef == Fresh(2)
      old == heap[existingBook]
      updatedBook ==
        [id |-> old.id,
         title |-> IF Truthy(data.title) THEN sanitizeString(data.title) ELSE old.title,
         author |-> IF Truthy(data.author) THEN sanitizeString(data.author) ELSE old.author,
         year |-> IF IsDefined(data.year) THEN data.year ELSE old.year]
      h1 == New(heap, updatedRef, updatedBook)
      h2 == New(h1, copyRef, h1[updatedRef])
  IN IF existingBook = 0
     THEN Effect(books, heap, "null", NoError, <<>>)
     ELSE IF e # NoError
     THEN Effect(books, heap, "throw", e, <<>>)
     ELSE Effect(MapSet(books, id, updatedRef), h2, "book", NoError, <<copyRef>>)

\* update that takes the year of the request whether or not it is present
updateCall_AlwaysYear(id, data) ==
  LET e == validateUpdateBookData(data, now)
      existingBook == MapGet(books, id)
      updatedRef == Fresh(1)
      copyRef == Fresh(2)
      old == heap[existingBook]
      updatedBook ==
        [id |-> old.id,
         title |-> IF Truthy(data.title) THEN sanitizeString(data.title) ELSE old.title,
         author |-> IF Truthy(data.author) THEN sanitizeString(data.author) ELSE old.author,
         year |-> IF data.year = Absent THEN Undefined ELSE data.year]
      h1 == New(heap, updatedRef, updatedBook)
      h2 == New(h1, copyRef, h1[updatedRef])
  IN IF e # NoError
     THEN Effect(books, heap, "throw", e, <<>>)
     ELSE IF existingBook = 0
     THEN Effect(books, heap, "null", NoError, <<>>)
     ELSE Effect(MapSet(books, id, updatedRef), h2, "book", NoError, <<copyRef>>)

\* update that throws for an id that is not stored
updateCall_NotFoundThrows(id, data) ==
  LET e == validateUpdateBookData(data, now)
      existingBook == MapGet(books, id)
      updatedRef == Fresh(1)
      copyRef == Fresh(2)
      old == heap[existingBook]
      updatedBook ==
        [id |-> old.id,
         title |-> IF Truthy(data.title) THEN sanitizeString(data.title) ELSE old.title,
         author |-> IF Truthy(data.author) THEN sanitizeString(data.author) ELSE old.author,
         year |-> IF IsDefined(data.year) THEN data.year ELSE old.year]
      h1 == New(heap, updatedRef, updatedBook)
      h2 == New(h1, copyRef, h1[updatedRef])
  IN IF e # NoError
     THEN Effect(books, heap, "throw", e, <<>>)
     ELSE IF existingBook = 0
     THEN Effect(books, heap, "throw", BookNotFoundError(id), <<>>)
     ELSE Effect(MapSet(books, id, updatedRef), h2, "book", NoError, <<copyRef>>)

\* update that does not carry the id of the existing record over
updateCall_DropsId(id, data) ==
  LET e == validateUpdateBookData(data, now)
      existingBook == MapGet(books, id)
      updatedRef == Fresh(1)
      copyRef == Fresh(2)
      old == heap[existingBook]
      updatedBook ==
        [id |-> NoId,
         title |-> IF Truthy(data.title) THEN sanitizeString(data.title) ELSE old.title,
         author |-> IF Truthy(data.author) THEN sanitizeString(data.author) ELSE old.author,
         year |-> IF IsDefined(data.year) THEN data.year ELSE old.year]
      h1 == New(heap, updatedRef, updatedBook)
      h2 == New(h1, copyRef, h1[updatedRef])
  IN IF e # NoError
     THEN Effect(books, heap, "throw", e, <<>>)
     ELSE IF existingBook = 0
     THEN Effect(books, heap, "null", NoError, <<>>)
     ELSE Effect(MapSet(books, id, updatedRef), h2, "book", NoError, <<copyRef>>)

\* update(id, data)
updateCall(id, data) ==
  LET e == validateUpdateBookData(data, now)
      existingBook == MapGet(books, id)
      updatedRef == Fresh(1)
      copyRef == Fresh(2)
      old == heap[existingBook]
      updatedBook ==
        [id |-> old.id,
         title |-> IF Truthy(data.title) THEN sanitizeString(data.title) ELSE old.title,
         author |-> IF Truthy(data.author) THEN sanitizeString(data.author) ELSE old.author,
         year |-> IF IsDefined(data.year) THEN data.year ELSE old.year]
      h1 == New(heap, updatedRef, updatedBook)
      h2 == New(h1, copyRef, h1[updatedRef])
  IN IF e # NoError
     THEN Effect(books, heap, "throw", e, <<>>)
     ELSE IF existingBook = 0
     THEN Effect(books, heap, "null", NoError, <<>>)
     ELSE Effect(MapSet(books, id, updatedRef), h2, "book", NoError, <<copyRef>>)

\* safeUpdate that passes the null of update on as a success
safeUpdateCall_NullIsSuccess(id, data) ==
  LET u == updateCall(id, data)
  IN IF u.out = "throw" THEN [u EXCEPT !.out = "failure"]
     ELSE [u EXCEPT !.out = "success"]

\* safeUpdate(id, data)
safeUpdateCall(id, data) ==
  LET u == updateCall(id, data)
  IN IF u.out = "throw" THEN [u EXCEPT !.out = "failure"]
     ELSE IF u.out = "null"
     THEN [u EXCEPT !.out = "failure", !.err = BookNotFoundError(id)]
     ELSE [u EXCEPT !.out = "success"]

\* delete that reports the removal and leaves the entry in the Map
deleteCall_KeepsEntry(id) ==
  Effect(books, heap, IF MapHas(books, id) THEN "true" ELSE "false", NoError, <<>>)

\* delete(id)
deleteCall(id) ==
  Effect(MapDelete(books, id), heap,
         IF MapHas(books, id) THEN "true" ELSE "false", NoError, <<>>)

\* safeDelete that returns normally whether or not the id was stored
safeDeleteCall_Silent(id) ==
  LET d == deleteCall(id)
  IN [d EXCEPT !.out = "void"]

\* safeDelete(id)
safeDeleteCall(id) ==
  LET d == deleteCall(id)
  IN IF d.out = "false"
     THEN [d EXCEPT !.out = "throw", !.err = BookNotFoundError(id)]
     ELSE [d EXCEPT !.out = "void"]

\* count()
countCall == [Effect(books, heap, "number", NoError, <<>>) EXCEPT !.n = Len(books)]

\* clear that leaves the oldest entry in the Map
clearCall_KeepsFirst ==
  Effect(IF books = <<>> THEN <<>> ELSE <<Head(books)>>, heap, "void", NoError, <<>>)

\* clear()
clearCall == Effect(<<>>, heap, "void", NoError, <<>>)

\* isEmpty()
isEmptyCall ==
  Effect(books, heap, IF Len(books) = 0 THEN "true" ELSE "false", NoError, <<>>)

\* Math.ceil(a / b) for a >= 0, b >= 1
Ceil(a, b) == (a + b - 1) \div b
Max(a, b) == IF a > b THEN a ELSE b
Min(a, b) == IF a < b THEN a ELSE b

\* slice that takes the element at end too
Slice_Inclusive(s, start, end) == SubSeq(s, start + 1, Min(end + 1, Len(s)))

\* Array.prototype.slice(start, end) for 0 <= start
Slice(s, start, end) == SubSeq(s, start + 1, Min(end, Len(s)))

\* getPaginated that rounds the number of pages down
getPaginatedCall_FloorPages(page, pageSize) ==
  LET totalBooks == countCall.n
      totalPages == totalBooks \div pageSize
      currentPage == Max(1, Min(page, totalPages))
      startIndex == (currentPage - 1) * pageSize
      endIndex == startIndex + pageSize
      allBooks == findAllCall
  IN [allBooks EXCEPT
        !.out = "page",
        !.ret = Slice(allBooks.ret, startIndex, endIndex),
        !.page = [totalBooks |-> totalBooks, totalPages |-> totalPages,
                  currentPage |-> currentPage,
                  hasNextPage |-> currentPage < totalPages,
                  hasPreviousPage |-> currentPage > 1]]

\* getPaginated that reports a next page on the last page too
getPaginatedCall_NextInclusive(page, pageSize) ==
  LET totalBooks == countCall.n
      totalPages == Ceil(totalBooks, pageSize)
      currentPage == Max(1, Min(page, totalPages))
      startIndex == (currentPage - 1) * pageSize
      endIndex == startIndex + pageSize
      allBooks == findAllCall
  IN [allBooks EXCEPT
        !.out = "page",
        !.ret = Slice(allBooks.ret, startIndex, endIndex),
        !.page = [totalBooks |-> totalBooks, totalPages |-> totalPages,
                  currentPage |-> currentPage,
                  hasNextPage |-> currentPage <= totalPages,
                  hasPreviousPage |-> currentPage > 1]]

\* getPaginated(page, pageSize), pageSize >= 1
getPaginatedCall(page, pageSize) ==
  LET totalBooks == countCall.n
      totalPages == Ceil(totalBooks, pageSize)
      currentPage == Max(1, Min(page, totalPages))
      startIndex == (currentPage - 1) * pageSize
      endIndex == startIndex + pageSize
      allBooks == findAllCall
  IN [allBooks EXCEPT
        !.out = "page",
        !.ret = Slice(allBooks.ret, startIndex, endIndex),
        !.page = [totalBooks |-> totalBooks, totalPages |-> totalPages,
                  currentPage |-> currentPage,
                  hasNextPage |-> currentPage < totalPages,
                  hasPreviousPage |-> currentPage > 1]]

\* ------------------------------------------------------------------ inputs
Req(title, author, year) == [title |-> title, author |-> author, year |-> year]
NoReq == Req(Absent, Absent, Absent)

TitleInputs == {Str(<<" ", "a", " ">>), Str(<<"a", " ", "B">>)}
AuthorInputs == {Str(<<"A", " ">>), Str(<<"b">>)}
BlankTitle == Str(<<" ">>)
EmptyAuthor == Str(<<>>)
\* the years at and next to the two ends of the valid range at clock t
ValidYears(t) == {Num(0), Num(getFullYear(t))}
InvalidYears(t) == {Num(-1), Num(getFullYear(t) + 1)}

\* creation requests: every valid one, and invalid ones with one, two and
\* three bad fields
CreateReqs(t) ==
  [title : TitleInputs, author : AuthorInputs, year : ValidYears(t)]
  \cup [title : {BlankTitle}, author : {Str(<<"b">>), EmptyAuthor}, year : {Num(0), Num(-1)}]
  \cup [title : {Str(<<"a", " ", "B">>)}, author : {EmptyAuthor}, year : {Num(0), Num(-1)}]
  \cup [title : {Str(<<"a", " ", "B">>)}, author : {Str(<<"b">>)},
        year : InvalidYears(t) \cup {Half(1)}]

\* update requests: every combination of present and absent fields, with
\* valid and invalid values, and a key whose value is undefined
UpdateReqs(t) ==
  [title : {Absent, Str(<<"a", " ", "B">>), BlankTitle},
   author : {Absent, Str(<<" ", "b">>)},
   year : {Absent, Num(0), Num(getFullYear(t) + 1)}]
  \cup {Req(Str(<<" ", "a", " ">>), Absent, Absent),
        Req(Absent, Str(<<"A", " ">>), Num(getFullYear(t))),
        Req(Absent, EmptyAuthor, Absent),
        Req(Absent, Absent, Num(-1)),
        Req(Absent, Absent, Half(1)),
        Req(Undefined, Absent, Absent)}

Rands == 1..NumRand
\* every identifier the generator can produce
AllIds == {generateId(t, r) : t \in 0..MaxNow, r \in Rands}
\* the identifiers a caller passes: the stored ones and one never generated
IdInputs == {books[i].key : i \in 1..Len(books)} \cup {UnknownId}
\* search arguments: one with whitespace and an upper-case letter, one that
\* is part of a longer title, one that occurs nowhere, one of whitespace only
Queries == {<<" ", "A">>, <<"b">>, <<"a", "b">>, <<" ">>}
Pages == (-1)..(MaxBooks + 1)
PageSizes == 1..MaxBooks

\* ----------------------------------------------------------------- actions
NoLast ==
  [op |-> "new", out |-> "void", err |-> NoError, ret |-> <<>>, n |-> 0,
   page |-> NoPage]

\* no call is being returned from
NoCall ==
  [active |-> FALSE, id |-> NoId, data |-> NoReq, text |-> <<>>, year |-> Absent,
   page |-> 0, pageSize |-> 0, before |-> <<>>, held |-> NoObj]
WithId(id) == [NoCall EXCEPT !.id = id]
WithData(data) == [NoCall EXCEPT !.data = data]
WithIdData(id, data) == [NoCall EXCEPT !.id = id, !.data = data]

Idle == ~call.active

\* the front-end constructed and not started; no menu action taken
NoCli ==
  [pc |-> "new", action |-> "none", choice |-> <<>>, yearText |-> <<>>,
   core |-> {}, raised |-> NoError, msg |-> "none"]

Init ==
  /\ books = <<>>
  /\ heap = [r \in Refs |-> NoObj]
  /\ now = 0
  /\ last = NoLast
  /\ kept = 0
  /\ call = NoCall
  /\ issued = [id \in AllIds |-> 0]
  /\ cli = NoCli

\* the call returns: its effect becomes the state; the arguments and the
\* store as it was are on record until the caller goes on
Done(op, args, effect) ==
  \E e \in {effect} :
    \E order \in {Reachable(e.books, kept, e.ret)} :
      /\ books' = [i \in 1..Len(e.books) |->
                     [key |-> e.books[i].key, ref |-> Renumber(order, e.books[i].ref)]]
      /\ heap' = [r \in Refs |-> IF r <= Len(order) THEN e.heap[order[r]] ELSE NoObj]
      /\ kept' = Renumber(order, kept)
      /\ last' = [op |-> op, out |-> e.out, err |-> e.err,
                  ret |-> [i \in 1..Len(e.ret) |-> Renumber(order, e.ret[i])],
                  n |-> e.n, page |-> e.page]
      /\ call' = [args EXCEPT !.active = TRUE, !.before = Stored,
                               !.held = IF kept = 0 THEN NoObj ELSE heap[kept]]
      /\ now' = now

create(data, r) ==
  Len(books) < MaxBooks /\ Done("create", WithData(data), createCall(data, r))
safeCreate(data, r) ==
  Len(books) < MaxBooks /\ Done("safeCreate", WithData(data), safeCreateCall(data, r))
findById(id) == Done("findById", WithId(id), findByIdCall(id))
findAll == Done("findAll", NoCall, findAllCall)
findByAuthor(q) == Done("findByAuthor", [NoCall EXCEPT !.text = q], findByAuthorCall(q))
findByTitle(q) == Done("findByTitle", [NoCall EXCEPT !.text = q], findByTitleCall(q))
findByYear(y) == Done("findByYear", [NoCall EXCEPT !.year = y], findByYearCall(y))
update(id, data) == Done("update", WithIdData(id, data), updateCall(id, data))
safeUpdate(id, data) == Done("safeUpdate", WithIdData(id, data), safeUpdateCall(id, data))
delete(id) == Done("delete", WithId(id), deleteCall(id))
safeDelete(id) == Done("safeDelete", WithId(id), safeDeleteCall(id))
count == Done("count", NoCall, countCall)
clear == Done("clear", NoCall, clearCall)
isEmpty == Done("isEmpty", NoCall, isEmptyCall)
getPaginated(page, pageSize) ==
  Done("getPaginated", [NoCall EXCEPT !.page = page, !.pageSize = pageSize],
       getPaginatedCall(page, pageSize))

\* the caller goes on to its next statement
Return ==
  /\ call.active
  /\ call' = NoCall
  /\ UNCHANGED <<books, heap, now, last, kept>>

\* time passes
Tick ==
  /\ now < MaxNow
  /\ now' = now + 1
  /\ UNCHANGED <<books, heap, last, kept, call>>

\* the requests the Result-returning wrappers are called with: one per way
\* the wrapped method ends
SafeCreateReqs(t) ==
  {Req(Str(<<" ", "a", " ">>), Str(<<"b">>), Num(getFullYear(t))),
   Req(BlankTitle, Str(<<"b">>), Num(0)),
   Req(Str(<<"a", " ", "B">>), Str(<<"A", " ">>), Num(getFullYear(t) + 1))}
SafeUpdateReqs(t) ==
  {Req(Str(<<"a", " ", "B">>), Absent, Num(0)),
   Req(Absent, Str(<<" ", "b">>), Absent),
   Req(Absent, Absent, Absent),
   Req(Absent, EmptyAuthor, Num(0)),
   Req(Absent, Absent, Num(getFullYear(t) + 1))}

Writes ==
  \/ \E data \in CreateReqs(now), r \in Rands : create(data, r)
  \/ \E data \in SafeCreateReqs(now), r \in Rands : safeCreate(data, r)
  \/ \E id \in IdInputs, data \in UpdateReqs(now) : update(id, data)
  \/ \E id \in IdInputs, data \in SafeUpdateReqs(now) : safeUpdate(id, data)
  \/ \E id \in IdInputs : delete(id)
  \/ \E id \in IdInputs : safeDelete(id)
  \/ clear
  \/ Tick

Next ==
  \/ Idle /\ Writes
  \/ Idle /\ \E id \in IdInputs : findById(id)
  \/ Idle /\ findAll
  \/ Return

Spec == Init /\ [][Next /\ UNCHANGED <<issued, cli>>]_vars

\* the store under its queries
NextQuery ==
  \/ Idle /\ \E data \in CreateReqs(now), r \in Rands : create(data, r)
  \/ Idle /\ \E id \in IdInputs : delete(id)
  \/ Idle /\ Tick
  \/ Idle /\ \E id \in IdInputs : findById(id)
  \/ Idle /\ findAll
  \/ Idle /\ \E q \in Queries : findByAuthor(q)
  \/ Idle /\ \E q \in Queries : findByTitle(q)
  \/ Idle /\ \E y \in ValidYears(now) : findByYear(y)
  \/ Idle /\ count
  \/ Idle /\ isEmpty
  \/ Idle /\ \E page \in Pages, pageSize \in PageSizes : getPaginated(page, pageSize)
  \/ Return

SpecQuery == Init /\ [][NextQuery /\ UNCHANGED <<issued, cli>>]_vars

\* ------------------------------------------ every operation of the store
NextFull ==
  \/ Idle /\ \E data \in SafeCreateReqs(now), r \in Rands : create(data, r)
  \/ Idle /\ \E data \in SafeCreateReqs(now), r \in Rands : safeCreate(data, r)
  \/ Idle /\ \E id \in IdInputs, data \in SafeUpdateReqs(now) : update(id, data)
  \/ Idle /\ \E id \in IdInputs, data \in SafeUpdateReqs(now) : safeUpdate(id, data)
  \/ Idle /\ \E id \in IdInputs : delete(id)
  \/ Idle /\ \E id \in IdInputs : safeDelete(id)
  \/ Idle /\ clear
  \/ Idle /\ Tick
  \/ Idle /\ \E id \in IdInputs : findById(id)
  \/ Idle /\ findAll
  \/ Idle /\ \E q \in Queries : findByAuthor(q)
  \/ Idle /\ \E q \in Queries : findByTitle(q)
  \/ Idle /\ \E y \in ValidYears(now) : findByYear(y)
  \/ Idle /\ count
  \/ Idle /\ isEmpty
  \/ Idle /\ \E page \in Pages, pageSize \in PageSizes : getPaginated(page, pageSize)
  \/ Return

SpecFull == Init /\ [][NextFull /\ UNCHANGED <<issued, cli>>]_vars

\* ------------------------------------------------- a store read by pages
\* page numbers below, inside and beyond the pages of the largest store, and
\* page sizes up to one more than it holds
WidePages == (-1)..(MaxPageBooks + 1) \cup {2 * MaxPageBooks}
WidePageSizes == 1..(MaxPageBooks + 1)
PageRands == 1..MaxPageBooks
PageReq == Req(Str(<<"a">>), Str(<<"b">>), Num(0))

\* create(data) on a store that may grow to MaxPageBooks records
createMany(data, r) ==
  Len(books) < MaxPageBooks /\ Done("create", WithData(data), createCall(data, r))

NextPage ==
  \/ Idle /\ \E r \in PageRands : createMany(PageReq, r)
  \/ Idle /\ \E page \in WidePages, pageSize \in WidePageSizes : getPaginated(page, pageSize)
  \/ Return

SpecPage == Init /\ [][NextPage /\ UNCHANGED <<issued, cli>>]_vars

\* ------------------------------------------------- identifiers in a run
\* the history of the identifiers create has returned, counted up to 2
NoteIssued ==
  issued' =
    IF call'.active /\ last'.op = "create" /\ last'.out = "book"
    THEN [issued EXCEPT ![heap'[last'.ret[1]].id] = Min(@ + 1, 2)]
    ELSE issued

NextIds ==
  \/ Idle /\ \E data \in SafeCreateReqs(now), r \in Rands : create(data, r)
  \/ Idle /\ \E id \in IdInputs : delete(id)
  \/ Idle /\ clear
  \/ Idle /\ Tick
  \/ Return

SpecIds == Init /\ [][NextIds /\ NoteIssued /\ UNCHANGED cli]_vars

\* ------------------------------------------- the caller and its references
\* the caller retains the i-th record the last call returned
Keep(i) ==
  /\ i \in 1..Len(last.ret)
  /\ \E order \in {Reachable(books, last.ret[i], last.ret)} :
       /\ heap' = [r \in Refs |-> IF r <= Len(order) THEN heap[order[r]] ELSE NoObj]
       /\ kept' = Renumber(order, last.ret[i])
       /\ last' = [last EXCEPT !.ret = [j \in 1..Len(last.ret) |-> Renumber(order, last.ret[j])]]
  /\ UNCHANGED <<books, now, call>>

\* the caller assigns to a field of the record it retained
MutatedValue == Str(<<"M">>)
Assign(field) ==
  /\ kept # 0
  /\ heap' = [heap EXCEPT ![kept][field] = IF field = "id" THEN UnknownId ELSE MutatedValue]
  /\ last' = [NoLast EXCEPT !.op = "assign", !.ret = last.ret]
  /\ call' = [NoCall EXCEPT !.active = TRUE, !.before = Stored, !.held = heap[kept]]
  /\ UNCHANGED <<books, now, kept>>

\* the retained object read as a request
AsRequest(obj) == Req(obj.title, obj.author, obj.year)

\* create(data) and update(id, data) with the retained object as data
createHeld(r) == kept # 0 /\ create(AsRequest(heap[kept]), r)
updateHeld(id) == kept # 0 /\ update(id, AsRequest(heap[kept]))

AliasCreateReqs == {Req(Str(<<" ", "a", " ">>), Str(<<"A", " ">>), Num(0))}
AliasUpdateReqs == {Req(Str(<<"a", " ", "B">>), Absent, Absent)}
Fields == {"id", "title", "author", "year"}

NextAlias ==
  \/ Idle /\ \E data \in AliasCreateReqs, r \in Rands : create(data, r)
  \/ Idle /\ \E r \in Rands : createHeld(r)
  \/ Idle /\ \E id \in IdInputs, data \in AliasUpdateReqs : update(id, data)
  \/ Idle /\ \E id \in IdInputs : updateHeld(id)
  \/ Idle /\ \E id \in IdInputs : delete(id)
  \/ Idle /\ \E id \in IdInputs : findById(id)
  \/ Idle /\ findAll
  \/ Idle /\ findByAuthor(<<"a">>)
  \/ Idle /\ findByTitle(<<"a">>)
  \/ Idle /\ findByYear(Num(0))
  \/ Idle /\ getPaginated(1, 1)
  \/ Idle /\ \E i \in 1..MaxBooks : Keep(i)
  \/ Idle /\ \E field \in Fields : Assign(field)
  \/ Return

SpecAlias == Init /\ [][NextAlias /\ UNCHANGED <<issued, cli>>]_vars

\* ------------------------------------------- utils.ts called on its own
\* values of every type for a string field and for the year
WideStrings ==
  {Absent, Undefined, Null, Num(7), Str(<<>>), Str(<<" ">>), Str(<<"a">>),
   Str(<<" ", "a", " ">>)}
WideYears ==
  {Absent, Undefined, Null, NaNVal, Str(<<"1">>), Half(1), Half(-1)}
  \cup {Num(y) : y \in (-1)..(getFullYear(MaxNow) + 1)}
WideReqs == [title : WideStrings, author : WideStrings, year : WideYears]

\* a call of a validator: it throws err or returns
Validated(op, data, err) ==
  /\ last' = [NoLast EXCEPT !.op = op, !.err = err,
                            !.out = IF err = NoError THEN "void" ELSE "throw"]
  /\ call' = [WithData(data) EXCEPT !.active = TRUE]
  /\ UNCHANGED <<books, heap, now, kept>>

callValidateCreate(data) ==
  Validated("validateCreateBookData", data, validateCreateBookData(data, now))
callValidateUpdate(data) ==
  Validated("validateUpdateBookData", data, validateUpdateBookData(data, now))

NextValidate ==
  \/ Idle /\ \E data \in WideReqs : callValidateCreate(data)
  \/ Idle /\ \E data \in WideReqs : callValidateUpdate(data)
  \/ Idle /\ Tick
  \/ Return

SpecValidate == Init /\ [][NextValidate /\ UNCHANGED <<issued, cli>>]_vars

\* ------------------------------------------------------------- BookCLI.ts
\* the value of a decimal digit, -1 for any other character
DigitVal(c) == CASE c = "0" -> 0 [] c = "1" -> 1 [] c = "2" -> 2 [] OTHER -> -1

\* the number the leading digits of s spell, after the digits read so far
\* gave acc
RECURSIVE LeadingDigits(_, _)
LeadingDigits(s, acc) ==
  IF s = <<>> \/ DigitVal(Head(s)) < 0 THEN acc
  ELSE LeadingDigits(Tail(s), 10 * acc + DigitVal(Head(s)))

\* parseInt(text, 10): leading whitespace is skipped, a sign is read, then
\* the longest run of digits; what follows is ignored; NaN without a digit
parseInt(text) ==
  LET t == TrimLeft(text)
      signed == t # <<>> /\ Head(t) \in {"-", "+"}
      digits == IF signed THEN Tail(t) ELSE t
  IN IF digits = <<>> \/ DigitVal(Head(digits)) < 0 THEN NaNVal
     ELSE IF signed /\ Head(t) = "-" THEN Num(0 - LeadingDigits(digits, 0))
     ELSE Num(LeadingDigits(digits, 0))

\* isNaN(v)
isNaN(v) == v.k = "nan"

\* what one menu action did: the store it leaves, the methods of the store
\* it called, the error the store raised in it, the message it printed
Handled(effect, core, raised, msg) ==
  [eff |-> effect, core |-> core, raised |-> raised, msg |-> msg]

\* the store as it is, nothing returned
NoEffect == Effect(books, heap, "void", NoError, <<>>)

\* viewAllBooks()
viewAllBooks ==
  Handled(NoEffect, {"findAll"}, NoError,
          IF findAllCall.ret = <<>> THEN "No books found" ELSE "All Books")

\* searchByYear() when the user enters yearStr
searchByYear(yearStr) ==
  LET year == parseInt(yearStr)
  IN IF isNaN(year)
     THEN Handled(NoEffect, {}, NoError, "Please enter a valid year")
     ELSE Handled(NoEffect, {"findByYear"}, NoError,
                  IF findByYearCall(year).ret = <<>> THEN "No books found" ELSE "Found")

\* searchBooks() when the user enters choice, then text; for choice 4 the
\* text is the id
searchBooks(choice, text, id) ==
  LET c == Trim(choice)
  IN IF c = <<"1">>
     THEN Handled(NoEffect, {"findByTitle"}, NoError,
                  IF findByTitleCall(text).ret = <<>> THEN "No books found" ELSE "Found")
     ELSE IF c = <<"2">>
     THEN Handled(NoEffect, {"findByAuthor"}, NoError,
                  IF findByAuthorCall(text).ret = <<>> THEN "No books found" ELSE "Found")
     ELSE IF c = <<"3">> THEN searchByYear(text)
     ELSE IF c = <<"4">>
     THEN Handled(NoEffect, {"findById"}, NoError,
                  IF findByIdCall(id).out = "book" THEN "Book found" ELSE "Book not found")
     ELSE Handled(NoEffect, {}, NoError, "Invalid choice")

\* addBook() when the user enters title, author and yearStr
addBook(title, author, yearStr, r) ==
  LET year == parseInt(yearStr)
      bookData == Req(Str(title), Str(author), year)
      c == createCall(bookData, r)
  IN IF isNaN(year)
     THEN Handled(NoEffect, {}, NoError, "Please enter a valid year")
     ELSE IF c.out = "throw"
     THEN Handled(NoEffect, {"create"}, c.err, "Validation Error")
     ELSE Handled(c, {"create"}, NoError, "Book added successfully")

\* updateBook() when the user enters id, then title, author and yearStr
updateBook(id, title, author, yearStr) ==
  LET existingBook == findByIdCall(id)
      year == parseInt(yearStr)
      updateData ==
        Req(IF Trim(title) # <<>> THEN Str(title) ELSE Absent,
            IF Trim(author) # <<>> THEN Str(author) ELSE Absent,
            IF Trim(yearStr) # <<>> THEN year ELSE Absent)
      u == updateCall(id, updateData)
  IN IF existingBook.out = "null"
     THEN Handled(NoEffect, {"findById"}, NoError, "Book not found")
     ELSE IF Trim(yearStr) # <<>> /\ isNaN(year)
     THEN Handled(NoEffect, {"findById"}, NoError, "Invalid year provided")
     ELSE IF NumKeys(updateData) = 0
     THEN Handled(NoEffect, {"findById"}, NoError, "No changes made")
     ELSE IF u.out = "throw"
     THEN Handled(NoEffect, {"findById", "update"}, u.err, "Validation Error")
     ELSE IF u.out = "book"
     THEN Handled(u, {"findById", "update"}, NoError, "Book updated successfully")
     ELSE Handled(NoEffect, {"findById", "update"}, NoError, "none")

\* deleteBook() when the user enters id, then confirm
deleteBook(id, confirm) ==
  LET existingBook == findByIdCall(id)
      d == safeDeleteCall(id)
  IN IF existingBook.out = "null"
     THEN Handled(NoEffect, {"findById"}, NoError, "Book not found")
     ELSE IF ToLowerCase(confirm) \notin {<<"y", "e", "s">>, <<"y">>}
     THEN Handled(NoEffect, {"findById"}, NoError, "Delete operation cancelled")
     ELSE IF d.out = "throw"
     THEN Handled(NoEffect, {"findById", "safeDelete"}, d.err, "Book with id not found")
     ELSE Handled(d, {"findById", "safeDelete"}, NoError, "Book deleted successfully")

\* viewStatistics()
viewStatistics ==
  Handled(NoEffect, {"count", "findAll"}, NoError,
          IF countCall.n = 0 THEN "Collection is empty" ELSE "Collection Statistics")

\* the loop that also ends when the store raised an error in the action
LoopsAgain_EndsOnError(choice, raised) == Trim(choice) # <<"7">> /\ raised = NoError

\* the loop of showMainMenu goes round again: case '7' alone returns
LoopsAgain(choice, raised) == Trim(choice) # <<"7">>

\* one round of the loop of showMainMenu: the menu is shown, the user enters
\* choice, the action h runs and its errors are caught
MenuRound(action, choice, yearStr, h) ==
  /\ cli.pc = "menu"
  /\ Done("menu", NoCall, h.eff)
  /\ cli' = [pc |-> IF LoopsAgain(choice, h.raised) THEN "menu" ELSE "closed",
             action |-> action, choice |-> choice, yearText |-> yearStr,
             core |-> h.core, raised |-> h.raised, msg |-> h.msg]

\* the sample records start() adds, as many as the bound of the core's own
\* store allows; their years lie in the past
SampleBooks ==
  <<Req(Str(<<"a">>), Str(<<"b">>), Num(0)), Req(Str(<<"a", " ", "B">>), Str(<<"A">>), Num(0))>>

\* addSampleData(): create for each sample, a failure reported and passed over
RECURSIVE addSampleData(_, _, _, _)
addSampleData(samples, rs, m, h) ==
  IF samples = <<>> THEN Effect(m, h, "void", NoError, <<>>)
  ELSE LET book == [id |-> generateId(now, Head(rs)),
                    title |-> sanitizeString(Head(samples).title),
                    author |-> sanitizeString(Head(samples).author),
                    year |-> Head(samples).year]
           bookRef == Len(m) + 1
       IN IF validateCreateBookData(Head(samples), now) # NoError
          THEN addSampleData(Tail(samples), Tail(rs), m, h)
          ELSE addSampleData(Tail(samples), Tail(rs),
                             MapSet(m, book.id, IF MapHas(m, book.id) THEN MapGet(m, book.id) ELSE bookRef),
                             New(h, IF MapHas(m, book.id) THEN MapGet(m, book.id) ELSE bookRef, book))

\* start(): the sample data is added and the menu is shown
start(rs) ==
  /\ cli.pc = "new"
  /\ Done("start", NoCall, addSampleData(SampleBooks, rs, books, heap))
  /\ cli' = [NoCli EXCEPT !.pc = "menu", !.core = {"create"}]

\* what the user types
Choices == {<<c>> : c \in {"1", "2", "3", "4", "5", "6", "7", "8"}} \cup {<<>>, <<" ", "7">>}
YearTexts ==
  {<<"0">>, <<"-", "1">>, <<" ", "1">>, <<"0", "a">>, <<"0", ".", "2">>, <<"a">>, <<>>}
TitleTexts == {<<"a">>, <<>>}
ConfirmTexts == {<<"y">>, <<"n">>}
SearchTexts == {<<"a">>}

\* the switch of showMainMenu on what the user entered
chooseViewAll == MenuRound("viewAllBooks", <<"1">>, <<>>, viewAllBooks)
chooseSearch ==
  \/ \E c \in {<<"1">>, <<"2">>, <<"5">>}, text \in SearchTexts :
       MenuRound("searchBooks", <<"2">>, <<>>, searchBooks(c, text, UnknownId))
  \/ \E text \in YearTexts :
       MenuRound("searchByYear", <<"2">>, text, searchBooks(<<"3">>, text, UnknownId))
  \/ \E id \in IdInputs :
       MenuRound("searchBooks", <<"2">>, <<>>, searchBooks(<<"4">>, <<>>, id))
chooseAdd ==
  /\ Len(books) < MaxBooks
  /\ \E title \in TitleTexts, yearStr \in YearTexts, r \in Rands :
       MenuRound("addBook", <<"3">>, yearStr, addBook(title, <<"b">>, yearStr, r))
chooseUpdate ==
  \E id \in IdInputs, title \in TitleTexts, yearStr \in YearTexts :
    MenuRound("updateBook", <<"4">>, yearStr, updateBook(id, title, <<>>, yearStr))
chooseDelete ==
  \E id \in IdInputs, confirm \in ConfirmTexts :
    MenuRound("deleteBook", <<"5">>, <<>>, deleteBook(id, confirm))
chooseStatistics == MenuRound("viewStatistics", <<"6">>, <<>>, viewStatistics)
chooseExit ==
  \E choice \in {c \in Choices : Trim(c) = <<"7">>} :
    MenuRound("exit", choice, <<>>, Handled(NoEffect, {}, NoError, "Thank you"))
chooseOther ==
  \E choice \in {c \in Choices : Trim(c) \notin {<<d>> : d \in {"1", "2", "3", "4", "5", "6", "7"}}} :
    MenuRound("default", choice, <<>>, Handled(NoEffect, {}, NoError, "Invalid choice"))

NextCli ==
  \/ Idle /\ (\E rs \in [1..Len(SampleBooks) -> Rands] : start(rs))
  \/ Idle /\ chooseViewAll
  \/ Idle /\ chooseSearch
  \/ Idle /\ chooseAdd
  \/ Idle /\ chooseUpdate
  \/ Idle /\ chooseDelete
  \/ Idle /\ chooseStatistics
  \/ Idle /\ chooseExit
  \/ Idle /\ chooseOther
  \/ Idle /\ Tick /\ UNCHANGED cli
  \/ Return /\ UNCHANGED cli

SpecCli == Init /\ [][NextCli /\ UNCHANGED issued]_vars

\* ================================================================== claims
\* the field rules of the record, stated on their own
IsText(v) == v.k = "str" /\ Trim(v.s) # <<>>
IsWholeNumber(v) == v.k = "num" /\ v.h % 2 = 0
InRange(v, t) == v.k = "num" /\ 0 <= v.h /\ v.h <= 2 * getFullYear(t)
YearOk(v, t) == IsWholeNumber(v) /\ InRange(v, t)

\* the record a call handed back
Returned == heap[last.ret[1]]

\* the call being returned from is a call of op
Ran(op) == call.active /\ last.op = op

\* the id of the call was a key of the Map when the call began
WasStored(id) == \E i \in 1..Len(call.before) : call.before[i].key = id

\* C1: every record in the Map has a non-empty title, a non-empty author and
\* an integer year between 0 and the current year; as the clock only moves
\* forward, this holds in the state each write leaves, so for the year at the
\* time of the last write.
C1_StoredRecordsValid ==
  \A i \in 1..Len(books) :
    LET b == heap[books[i].ref]
    IN /\ b.title.k = "str" /\ Len(b.title.s) > 0
       /\ b.author.k = "str" /\ Len(b.author.s) > 0
       /\ b.year.k = "num" /\ b.year.h % 2 = 0
       /\ 0 <= b.year.h /\ b.year.h <= 2 * getFullYear(now)

\* an update has just written the current year into a record of a full
\* store, after requests that were refused
C1_Witness ==
  /\ Ran("update") /\ last.out = "book"
  /\ Len(books) = MaxBooks
  /\ getFullYear(now) > 0
  /\ Returned.year = Num(getFullYear(now))
  /\ call.before # Stored

\* C2: a record handed out by the store is a copy of its own: no reference
\* the caller holds is a stored object, an assignment by the caller to any
\* field of a record it holds (a returned record, or the object it passed as
\* the request) leaves the store as it was, and a call of the store leaves a
\* record the caller retained as it was.
C2_ReturnedRecordsAreCopies ==
  /\ \A i \in 1..Len(books) : books[i].ref \notin Range(last.ret) \cup {kept}
  /\ Ran("assign") => Stored = call.before
  /\ (call.active /\ last.op # "assign" /\ kept # 0) => heap[kept] = call.held

\* the caller has assigned to the title of a record it retained, a copy of a
\* record that is still stored under that id with its own title
C2_Witness ==
  /\ Ran("assign")
  /\ kept # 0
  /\ heap[kept].title = MutatedValue
  /\ Len(books) = MaxBooks
  /\ \E i \in 1..Len(books) :
       /\ books[i].key = heap[kept].id
       /\ Stored[i].book.title # MutatedValue

\* C3: every identifier create returns is non-empty and differs from every
\* identifier an earlier create of the run returned, stored or not.
C3_IdsNeverRepeat ==
  /\ \A id \in AllIds : issued[id] <= 1
  /\ (Ran("create") /\ last.out = "book") => Returned.id # NoId

\* C4: for a valid creation request, create returns and stores a record whose
\* title and author are those of the request without the surrounding
\* whitespace and whose year is that of the request.
C4_CreateStoresTrimmed ==
  (Ran("create") /\ IsText(call.data.title) /\ IsText(call.data.author)
     /\ YearOk(call.data.year, now))
  => /\ last.out = "book"
     /\ Len(last.ret) = 1
     /\ Returned.title = Str(Trim(call.data.title.s))
     /\ Returned.author = Str(Trim(call.data.author.s))
     /\ Returned.year = call.data.year
     /\ MapHas(books, Returned.id)
     /\ heap[MapGet(books, Returned.id)] = Returned

\* create has returned a record whose title and author were given with
\* surrounding whitespace
C4_Witness ==
  /\ Ran("create") /\ last.out = "book"
  /\ call.data.title = Str(<<" ", "a", " ">>)
  /\ call.data.author = Str(<<"A", " ">>)
  /\ Returned.title = Str(<<"a">>)
  /\ Returned.author = Str(<<"A">>)

\* C5: when create or update throws, or safeCreate or safeUpdate returns a
\* failure, the store is as it was: same keys in the same order, same records.
C5_FailureLeavesStore ==
  (/\ call.active
   /\ last.op \in {"create", "update", "safeCreate", "safeUpdate"}
   /\ last.out \in {"throw", "failure"})
  => Stored = call.before

\* an update of a stored id was refused on a full store
C5_Witness ==
  /\ Ran("update") /\ last.out = "throw"
  /\ last.err.name = "ValidationError"
  /\ WasStored(call.id)
  /\ Len(books) = MaxBooks

\* C6: with title and author valid, create succeeds exactly when the year is
\* an integer in 0..currentYear; an update of a stored id that supplies a
\* year, its other supplied fields valid, succeeds under the same condition;
\* otherwise a ValidationError is thrown.
C6_YearRange ==
  /\ (Ran("create") /\ IsText(call.data.title) /\ IsText(call.data.author))
     => IF YearOk(call.data.year, now)
        THEN last.out = "book" /\ Returned.year = call.data.year
        ELSE last.out = "throw" /\ last.err.name = "ValidationError"
  /\ (/\ Ran("update")
      /\ WasStored(call.id)
      /\ IsDefined(call.data.year)
      /\ IsDefined(call.data.title) => IsText(call.data.title)
      /\ IsDefined(call.data.author) => IsText(call.data.author))
     => IF YearOk(call.data.year, now)
        THEN last.out = "book" /\ Returned.year = call.data.year
        ELSE last.out = "throw" /\ last.err.name = "ValidationError"

\* create has accepted the current year, which is not 0
C6_Witness ==
  /\ Ran("create") /\ last.out = "book"
  /\ getFullYear(now) > 0
  /\ call.data.year = Num(getFullYear(now))

\* the four creation checks in their fixed order: does the check fail, and
\* the reason it reports
CreateChecks(d, t) ==
  << [fails |-> ~IsText(d.title),
      rule |-> "Title is required and must be a non-empty string"],
     [fails |-> ~IsText(d.author),
      rule |-> "Author is required and must be a non-empty string"],
     [fails |-> ~IsWholeNumber(d.year), rule |-> "Year must be a valid integer"],
     [fails |-> ~InRange(d.year, t), rule |-> "Year must be between 0 and"] >>

FirstFailing(checks) ==
  CHOOSE i \in 1..Len(checks) :
    checks[i].fails /\ \A j \in 1..(i - 1) : ~checks[j].fails

\* C7: when a creation request breaks several field rules at once,
\* validateCreateBookData reports the first failing check in the order title,
\* author, year-is-integer, year-in-range, and reports nothing when none fails.
C7_FirstFailingCheckReported ==
  Ran("validateCreateBookData") =>
    LET checks == CreateChecks(call.data, now)
    IN IF \E i \in 1..Len(checks) : checks[i].fails
       THEN /\ last.out = "throw"
            /\ last.err.name = "ValidationError"
            /\ last.err.rule = checks[FirstFailing(checks)].rule
       ELSE last.out = "void" /\ last.err = NoError

\* a request with a valid title, an empty author and year -1 was validated
\* and the author rule was reported
C7_Witness ==
  /\ Ran("validateCreateBookData")
  /\ IsText(call.data.title)
  /\ call.data.author = Str(<<>>)
  /\ call.data.year = Num(-1)
  /\ last.err.rule = "Author is required and must be a non-empty string"

\* the update checks: a rule applies only to a field that is present
UpdateChecks(d, t) ==
  << [fails |-> IsDefined(d.title) /\ ~IsText(d.title),
      rule |-> "Title must be a non-empty string"],
     [fails |-> IsDefined(d.author) /\ ~IsText(d.author),
      rule |-> "Author must be a non-empty string"],
     [fails |-> IsDefined(d.year) /\ ~IsWholeNumber(d.year),
      rule |-> "Year must be a valid integer"],
     [fails |-> IsDefined(d.year) /\ ~InRange(d.year, t),
      rule |-> "Year must be between 0 and"] >>

\* none of title, author and year carries a value
CarriesNoValue(d) == ~IsDefined(d.title) /\ ~IsDefined(d.author) /\ ~IsDefined(d.year)

\* C8: validateUpdateBookData fails with 'At least one field must be provided
\* for update' for every request in which none of title, author and year
\* carries a value, and otherwise applies the field rules to the present
\* fields only.
C8_NoValueIsRejected ==
  Ran("validateUpdateBookData") =>
    LET checks == UpdateChecks(call.data, now)
    IN IF CarriesNoValue(call.data)
       THEN /\ last.out = "throw"
            /\ last.err = ValidationError("At least one field must be provided for update", 0)
       ELSE IF \E i \in 1..Len(checks) : checks[i].fails
       THEN last.out = "throw" /\ last.err.rule = checks[FirstFailing(checks)].rule
       ELSE last.out = "void"

C10_UpdateMerges ==
  (Ran("update") /\ WasStored(call.id)
     /\ validateUpdateBookData(call.data, now) = NoError)
  => /\ last.out = "book"
     /\ Len(last.ret) = 1
     /\ Len(Stored) = Len(call.before)
     /\ \A i \in 1..Len(call.before) :
          /\ Stored[i].key = call.before[i].key
          /\ call.before[i].key # call.id => Stored[i] = call.before[i]
          /\ call.before[i].key = call.id =>
               LET old == call.before[i].book
                   new == Stored[i].book
               IN /\ new = Returned
                  /\ new.id = call.id /\ old.id = call.id
                  /\ new.title = IF IsDefined(call.data.title)
                                 THEN Str(Trim(call.data.title.s)) ELSE old.title
                  /\ new.author = IF IsDefined(call.data.author)
                                  THEN Str(Trim(call.data.author.s)) ELSE old.author
                  /\ new.year = IF IsDefined(call.data.year)
                                THEN call.data.year ELSE old.year

\* an update has changed the title and the year of the second of two stored
\* records and left its author
C10_Witness ==
  /\ Ran("update") /\ last.out = "book"
  /\ Len(books) = 2
  /\ books[2].key = call.id
  /\ IsDefined(call.data.title) /\ ~IsDefined(call.data.author)
  /\ IsDefined(call.data.year)
  /\ Stored[2] # call.before[2]
  /\ Returned.author = call.before[2].book.author

\* the records a call handed back, in the order it returned them
ReturnedRecords == [i \in 1..Len(last.ret) |-> heap[last.ret[i]]]

\* the records of the store, in Map order
StoredRecords == [i \in 1..Len(Stored) |-> Stored[i].book]

\* the record stored under id when the call began
Before(id) == (CHOOSE e \in Range(call.before) : e.key = id).book

\* the entries of the store as it was, the one under id left out
RECURSIVE Without(_, _)
Without(entries, id) ==
  IF entries = <<>> THEN <<>>
  ELSE IF Head(entries).key = id THEN Without(Tail(entries), id)
  ELSE <<Head(entries)>> \o Without(Tail(entries), id)

\* C11: for a request the validator accepts and an id that is not stored,
\* update returns null without raising and leaves the store as it was: no
\* record appears under that id.
C11_UpdateUnknownIdIsNull ==
  (Ran("update") /\ ~WasStored(call.id)
     /\ validateUpdateBookData(call.data, now) = NoError)
  => /\ last.out = "null"
     /\ last.err = NoError
     /\ last.ret = <<>>
     /\ Stored = call.before
     /\ ~MapHas(books, call.id)

\* a valid update of an id that is not stored has returned null on a store
\* that holds records
C11_Witness ==
  /\ Ran("update") /\ last.out = "null"
  /\ ~WasStored(call.id)
  /\ IsDefined(call.data.title) /\ IsDefined(call.data.year)
  /\ Len(books) = MaxBooks

\* the record update writes over old for the request d
Merged(old, d) ==
  [id |-> old.id,
   title |-> IF IsDefined(d.title) THEN Str(Trim(d.title.s)) ELSE old.title,
   author |-> IF IsDefined(d.author) THEN Str(Trim(d.author.s)) ELSE old.author,
   year |-> IF IsDefined(d.year) THEN d.year ELSE old.year]

C13_SafeCreateOutcome ==
  Ran("safeCreate") =>
    LET e == validateCreateBookData(call.data, now)
    IN /\ last.out \in {"success", "failure"}
       /\ last.out = "success" <=> e = NoError
       /\ e = NoError =>
            /\ last.err = NoError
            /\ Len(last.ret) = 1
            /\ Returned.title = Str(Trim(call.data.title.s))
            /\ Returned.author = Str(Trim(call.data.author.s))
            /\ Returned.year = call.data.year
            /\ MapHas(books, Returned.id)
            /\ heap[MapGet(books, Returned.id)] = Returned
       /\ e # NoError =>
            /\ last.err = e /\ last.err.name = "ValidationError"
            /\ last.ret = <<>>
            /\ Stored = call.before

\* safeCreate has returned a failure for a year after the current one, the
\* store holding a record
C13_Witness ==
  /\ Ran("safeCreate") /\ last.out = "failure"
  /\ last.err.rule = "Year must be between 0 and"
  /\ Len(books) > 0

\* C14: delete never raises and returns true exactly when the id was stored;
\* afterwards the id is not stored, findById of it is null, a second delete
\* of it returns false, and every other record is as before, in its place.
C14_DeleteRemoves ==
  Ran("delete") =>
    /\ last.out = IF WasStored(call.id) THEN "true" ELSE "false"
    /\ last.err = NoError
    /\ ~MapHas(books, call.id)
    /\ findByIdCall(call.id).out = "null"
    /\ deleteCall(call.id).out = "false"
    /\ Stored = Without(call.before, call.id)

\* delete has removed the first of two stored records
C14_Witness ==
  /\ Ran("delete") /\ last.out = "true"
  /\ Len(call.before) = 2
  /\ call.before[1].key = call.id
  /\ Len(books) = 1
  /\ Stored[1] = call.before[2]

\* C15: safeDelete removes the record and returns normally when the id is
\* stored; when it is not, it raises a BookNotFoundError of that id and the
\* store is as it was.
C15_SafeDeleteOutcome ==
  Ran("safeDelete") =>
    IF WasStored(call.id)
    THEN /\ last.out = "void"
         /\ last.err = NoError
         /\ ~MapHas(books, call.id)
         /\ Stored = Without(call.before, call.id)
    ELSE /\ last.out = "throw"
         /\ last.err = BookNotFoundError(call.id)
         /\ Stored = call.before

\* safeDelete has raised for an id that is not stored, the store holding
\* records
C15_Witness ==
  /\ Ran("safeDelete") /\ last.out = "throw"
  /\ last.err.name = "BookNotFoundError"
  /\ ~WasStored(call.id)
  /\ Len(books) = MaxBooks

\* the record findById returns for id in the present store
Found(id) == LET f == findByIdCall(id) IN f.heap[f.ret[1]]

\* C16: after a successful create or update, findById of the returned id
\* returns a record equal to the returned one in id, title, author and year;
\* findById returns the record stored under the id, and null, without
\* raising, for an id that is not stored: never created, or deleted, or
\* cleared.
C16_FindByIdRoundTrip ==
  /\ (call.active /\ last.op \in {"create", "update"} /\ last.out = "book") =>
       /\ findByIdCall(Returned.id).out = "book"
       /\ Found(Returned.id) = Returned
  /\ Ran("findById") =>
       /\ last.err = NoError
       /\ IF WasStored(call.id)
          THEN /\ last.out = "book"
               /\ Len(last.ret) = 1
               /\ Returned = Before(call.id)
               /\ Returned.id = call.id
          ELSE last.out = "null" /\ last.ret = <<>>
       /\ Stored = call.before
  /\ \A id \in AllIds \cup {UnknownId} :
       ~MapHas(books, id) => findByIdCall(id).out = "null"
  /\ (call.active /\ last.op \in {"delete", "safeDelete"}) =>
       findByIdCall(call.id).out = "null"

\* create has stored a second record, its title given with surrounding
\* whitespace, and findById of the returned id gives the returned record
C16_Witness ==
  /\ Ran("create") /\ last.out = "book"
  /\ call.data.title = Str(<<" ", "a", " ">>)
  /\ Len(call.before) = 1 /\ Len(books) = 2
  /\ findByIdCall(Returned.id).out = "book"
  /\ Found(Returned.id).title = Str(<<"a">>)

\* the letters of s in lower case
Lowered(s) ==
  [i \in 1..Len(s) |-> CASE s[i] = "A" -> "a" [] s[i] = "B" -> "b" [] OTHER -> s[i]]

\* s from its first to its last character that is not whitespace
Stripped(s) ==
  IF \A i \in 1..Len(s) : s[i] = " " THEN <<>>
  ELSE LET lo == CHOOSE i \in 1..Len(s) : s[i] # " " /\ \A j \in 1..(i - 1) : s[j] = " "
           hi == CHOOSE i \in 1..Len(s) : s[i] # " " /\ \A j \in (i + 1)..Len(s) : s[j] = " "
       IN [i \in 1..(hi - lo + 1) |-> s[lo + i - 1]]

\* sub occurs in s as a run of consecutive characters
Occurs(sub, s) ==
  \E k \in 0..Len(s) :
    /\ k + Len(sub) <= Len(s)
    /\ \A j \in 1..Len(sub) : s[k + j] = sub[j]

\* the stored records, in Map order, whose field contains the query
Matching(field, q) ==
  SelectSeq(StoredRecords,
            LAMBDA b : Occurs(Stripped(Lowered(q)), Lowered(b[field].s)))

\* C17: findByAuthor(q) returns the records of the store, in Map order, whose
\* author in lower case contains q in lower case without its surrounding
\* whitespace, and no others; findByTitle does the same against the title;
\* the result is empty when nothing matches; the store is left as it was.
C17_FindByTextMatches ==
  /\ Ran("findByAuthor") =>
       /\ last.out = "list" /\ last.err = NoError
       /\ ReturnedRecords = Matching("author", call.text)
       /\ Stored = call.before
  /\ Ran("findByTitle") =>
       /\ last.out = "list" /\ last.err = NoError
       /\ ReturnedRecords = Matching("title", call.text)
       /\ Stored = call.before

\* findByAuthor, asked for " A", has returned the second of two stored
\* records and not the first
C17_Witness ==
  /\ Ran("findByAuthor")
  /\ call.text = <<" ", "A">>
  /\ Len(books) = 2
  /\ Len(last.ret) = 1
  /\ Returned = Stored[2].book
  /\ Returned.author = Str(<<"A">>)

\* C18: findByYear(y) returns the records of the store, in Map order, whose
\* year equals y: every one of them and no other; the result is empty when
\* none matches; the store is left as it was.
C18_FindByYearMatches ==
  Ran("findByYear") =>
    /\ last.out = "list" /\ last.err = NoError
    /\ ReturnedRecords = SelectSeq(StoredRecords, LAMBDA b : b.year = call.year)
    /\ \A i \in 1..Len(Stored) :
         Stored[i].book.year = call.year <=> Stored[i].book \in Range(ReturnedRecords)
    /\ Stored = call.before

\* findByYear has returned both records of the store, whose year is not 0
C18_Witness ==
  /\ Ran("findByYear")
  /\ call.year # Num(0)
  /\ Len(books) = 2
  /\ Len(last.ret) = 2
  /\ ReturnedRecords = StoredRecords

\* the number of pages of pageSize records that total records fill: the
\* least n with n * pageSize >= total
PagesFor(total, pageSize) ==
  CHOOSE n \in 0..total :
    /\ n * pageSize >= total
    /\ \A m \in 0..(n - 1) : m * pageSize < total

\* page brought into 1..pages, 1 when there is no page
Clamped(page, pages) ==
  IF pages = 0 \/ page < 1 THEN 1
  ELSE IF page > pages THEN pages
  ELSE page

\* the records at the 0-based positions lo .. hi - 1 of the store that exist
Window(lo, hi) ==
  LET last_ == IF hi < Len(StoredRecords) THEN hi ELSE Len(StoredRecords)
  IN [i \in 1..(IF last_ > lo THEN last_ - lo ELSE 0) |-> StoredRecords[lo + i]]

\* C19: for every store, every integer page and every pageSize >= 1,
\* getPaginated returns totalBooks = count(), totalPages = ceil(totalBooks /
\* pageSize), currentPage = page clamped into 1..totalPages (1 when there is
\* no page) and as books the records of the store at the positions
\* (currentPage - 1) * pageSize up to, not including, currentPage * pageSize:
\* five records, pageSize 2 and page 10 give currentPage 3 with one record.
C19_PaginationArithmetic ==
  (Ran("getPaginated") /\ call.pageSize >= 1) =>
    LET total == Len(Stored)
        pages == PagesFor(total, call.pageSize)
        cur == Clamped(call.page, pages)
    IN /\ last.out = "page" /\ last.err = NoError
       /\ last.page.totalBooks = total
       /\ last.page.totalBooks = countCall.n
       /\ last.page.totalPages = pages
       /\ last.page.currentPage = cur
       /\ ReturnedRecords = Window((cur - 1) * call.pageSize, cur * call.pageSize)
       /\ Stored = call.before

\* five records, pageSize 2 and page 10: currentPage is 3 and the one record
\* returned is the fifth
C19_Witness ==
  /\ Ran("getPaginated")
  /\ Len(books) = 5
  /\ call.pageSize = 2 /\ call.page = 10
  /\ last.page.totalPages = 3
  /\ last.page.currentPage = 3
  /\ ReturnedRecords = <<StoredRecords[5]>>

\* C20: in every getPaginated result (pageSize >= 1) hasNextPage is true
\* exactly when currentPage < totalPages and hasPreviousPage exactly when
\* currentPage > 1; on an empty store both are false; hasNextPage is true
\* exactly when a record of the store lies after the returned ones.
C20_PageFlags ==
  (Ran("getPaginated") /\ call.pageSize >= 1) =>
    /\ last.page.hasNextPage <=> last.page.currentPage < last.page.totalPages
    /\ last.page.hasPreviousPage <=> last.page.currentPage > 1
    /\ Len(books) = 0 => (~last.page.hasNextPage /\ ~last.page.hasPreviousPage)
    /\ last.page.hasNextPage <=>
         (last.page.currentPage - 1) * call.pageSize + Len(last.ret) < Len(books)

\* the second of three pages of a store of five records: a page before it
\* and a page after it
C20_Witness ==
  /\ Ran("getPaginated")
  /\ Len(books) = 5
  /\ call.pageSize = 2 /\ call.page = 2
  /\ last.page.hasNextPage /\ last.page.hasPreviousPage
  /\ Len(last.ret) = 2

\* the operations that only read the store
Reads ==
  {"findById", "findAll", "findByAuthor", "findByTitle", "findByYear", "count",
   "isEmpty", "getPaginated"}

\* the call ended in a thrown error or a failure outcome
Failed == last.out \in {"throw", "failure"}

\* C21: each successful create raises count() by exactly 1, each delete or
\* safeDelete that removes a record lowers it by exactly 1, and update, failed
\* operations and reads leave it as it was; in every state count() is the
\* length of findAll() and isEmpty() is true exactly when count() is 0.
C21_CountTracksOperations ==
  /\ countCall.n = Len(findAllCall.ret)
  /\ isEmptyCall.out = "true" <=> countCall.n = 0
  /\ Ran("count") => last.n = Len(call.before)
  /\ Ran("isEmpty") => (last.out = "true" <=> Len(call.before) = 0)
  /\ call.active =>
       LET was == Len(call.before)
       IN /\ (last.op \in {"create", "safeCreate"} /\ ~Failed) => countCall.n = was + 1
          /\ (last.op \in {"delete", "safeDelete"} /\ WasStored(call.id)) =>
               countCall.n = was - 1
          /\ (last.op \in {"delete", "safeDelete"} /\ ~WasStored(call.id)) =>
               countCall.n = was
          /\ last.op \in {"update", "safeUpdate"} => countCall.n = was
          /\ (last.op \in {"create", "safeCreate"} /\ Failed) => countCall.n = was
          /\ last.op \in Reads => countCall.n = was

\* C22: a newly constructed store is empty, and so is the store after
\* clear() in any state: count() is 0, isEmpty() is true, findAll() is the
\* empty sequence and findById is null for every id that had been stored.
C22_ClearEmpties ==
  (last.op = "new" \/ Ran("clear")) =>
    /\ countCall.n = 0
    /\ isEmptyCall.out = "true"
    /\ findAllCall.ret = <<>>
    /\ Stored = <<>>
    /\ \A i \in 1..Len(call.before) : findByIdCall(call.before[i].key).out = "null"
    /\ \A id \in AllIds : findByIdCall(id).out = "null"

\* clear has run on a full store
C22_Witness ==
  /\ Ran("clear")
  /\ Len(call.before) = MaxBooks
  /\ last.out = "void"
  /\ books = <<>>

\* C23: findAll() returns one copy of every stored record and nothing else;
\* the store is left as it was, and a second findAll with no write in
\* between returns the same sequence of records: the order is a function of
\* the store state.
C23_FindAllComplete ==
  Ran("findAll") =>
    /\ last.out = "list" /\ last.err = NoError
    /\ Len(last.ret) = Len(Stored)
    /\ Cardinality(Range(last.ret)) = Len(last.ret)
    /\ Range(ReturnedRecords) = Range(StoredRecords)
    /\ \A i \in 1..Len(books) : books[i].ref \notin Range(last.ret)
    /\ Stored = call.before
    /\ LET again == findAllCall
       IN [i \in 1..Len(again.ret) |-> again.heap[again.ret[i]]] = ReturnedRecords

\* findAll has returned the two records of a full store, the first of which
\* an update has written
C23_Witness ==
  /\ Ran("findAll")
  /\ Len(books) = 2
  /\ Len(last.ret) = 2
  /\ ReturnedRecords[1].title = Str(<<"a", " ", "B">>)
  /\ ReturnedRecords[1] # ReturnedRecords[2]

\* the operations that write the store
Writers ==
  {"create", "safeCreate", "update", "safeUpdate", "delete", "safeDelete", "clear"}

\* the ids whose record is not what it was when the call began, though the
\* id was stored then and is stored now
Rewritten ==
  {e.key : e \in {e \in Range(call.before) :
                    \E f \in Range(Stored) : f.key = e.key /\ f.book # e.book}}

\* C24: only create, update, delete, safeDelete and clear change the store:
\* the eight reads leave ids, field values and order as they were, and the
\* fields of a stored record change through update only.
C24_OnlyWritersChange ==
  call.active =>
    /\ last.op \in Reads => Stored = call.before
    /\ Stored # call.before => last.op \in Writers
    /\ Rewritten # {} => last.op \in {"update", "safeUpdate"}

\* C25: a BookNotFoundError comes from safeDelete and safeUpdate only, and
\* only for an id that is not stored; findById, delete and update neither
\* raise nor return one; a ValidationError comes from create and update only
\* and shows in safeCreate and safeUpdate as a failure outcome; no operation
\* of the store raises an error of another kind.
C25_ErrorsByOperation ==
  call.active =>
    /\ last.err = NoError \/ last.err.name \in {"ValidationError", "BookNotFoundError"}
    /\ last.err.name = "BookNotFoundError" =>
         /\ last.op \in {"safeDelete", "safeUpdate"}
         /\ ~WasStored(call.id)
         /\ last.err = BookNotFoundError(call.id)
    /\ last.op \in {"findById", "delete", "update"} =>
         last.err.name # "BookNotFoundError"
    /\ last.op \in {"findById", "delete"} => (last.out # "throw" /\ last.err = NoError)
    /\ last.err.name = "ValidationError" =>
         last.op \in {"create", "update", "safeCreate", "safeUpdate"}
    /\ last.out = "throw" =>
         \/ last.op \in {"create", "update"} /\ last.err.name = "ValidationError"
         \/ last.op = "safeDelete" /\ last.err.name = "BookNotFoundError"
    /\ (last.op \in {"safeCreate", "safeUpdate"} /\ last.err # NoError) =>
         last.out = "failure"
    /\ (last.op \in Reads \/ last.op = "clear") => (last.out # "throw" /\ last.err = NoError)

\* findById has returned null for an id that is not stored, the store
\* holding records
C25_Witness ==
  /\ Ran("findById") /\ last.out = "null"
  /\ last.err = NoError
  /\ ~WasStored(call.id)
  /\ Len(books) = MaxBooks

\* the keys of the entries, in Map order
Keys(entries) == [i \in 1..Len(entries) |-> entries[i].key]

\* C26: in every state each entry's record has the key it is stored under as
\* its id; update changes neither the id of a record nor the stored
\* identifiers: it adds no entry and removes none.
C26_IdIsKey ==
  /\ \A i \in 1..Len(Stored) : Stored[i].book.id = Stored[i].key
  /\ (call.active /\ last.op \in {"update", "safeUpdate"}) =>
       /\ Keys(Stored) = Keys(call.before)
       /\ \A i \in 1..Len(Stored) : Stored[i].book.id = call.before[i].book.id
       /\ last.ret # <<>> => Returned.id = call.id

\* update has rewritten the second of two stored records
C26_Witness ==
  /\ Ran("update") /\ last.out = "book"
  /\ Len(books) = 2
  /\ Stored[1] = call.before[1]
  /\ Stored[2] # call.before[2]
  /\ Stored[2].book.id = call.id

\* the records getPaginated(p, pageSize) returns in the present store
PageRecords(p, pageSize) ==
  LET g == getPaginatedCall(p, pageSize)
  IN [i \in 1..Len(g.ret) |-> g.heap[g.ret[i]]]

\* the records of the pages from to upto, one page after the other
RECURSIVE PagesJoined(_, _, _)
PagesJoined(from, upto, pageSize) ==
  IF from > upto THEN <<>>
  ELSE PageRecords(from, pageSize) \o PagesJoined(from + 1, upto, pageSize)

\* C27: for every store and pageSize >= 1 the pages partition the
\* collection: the books of the pages 1..totalPages, one after the other,
\* are the records of the store in order; every page before the last holds
\* exactly pageSize records; on a store that is not empty every request,
\* whatever its page, returns between 1 and pageSize records.
C27_PagesPartition ==
  (Ran("getPaginated") /\ call.pageSize >= 1) =>
    LET pages == last.page.totalPages
    IN /\ PagesJoined(1, pages, call.pageSize) = StoredRecords
       /\ \A p \in 1..(pages - 1) : Len(PageRecords(p, call.pageSize)) = call.pageSize
       /\ Len(books) > 0 => (1 <= Len(last.ret) /\ Len(last.ret) <= call.pageSize)
       /\ ReturnedRecords = PageRecords(last.page.currentPage, call.pageSize)

\* page -1 of a store of five records read three at a time: the first three
\* records, and a second page of two
C27_Witness ==
  /\ Ran("getPaginated")
  /\ Len(books) = 5
  /\ call.pageSize = 3 /\ call.page = -1
  /\ Len(last.ret) = 3
  /\ last.page.totalPages = 2
  /\ Len(PageRecords(2, 3)) = 2

\* the 1-based place of id in the entries, 0 when it is not there
Place(entries, id) ==
  IF \E i \in 1..Len(entries) : entries[i].key = id
  THEN CHOOSE i \in 1..Len(entries) : entries[i].key = id
  ELSE 0

\* C28: findAll() lists the records in the order their identifiers were
\* created: a successful create puts its record after all the others, update
\* leaves the updated record at its place (so on its page), and delete takes
\* one record out and leaves the others in their relative order.
C28_CreationOrder ==
  /\ Ran("findAll") => ReturnedRecords = StoredRecords
  /\ (call.active /\ last.op \in {"create", "safeCreate"} /\ ~Failed) =>
       Stored = Append(call.before, [key |-> Returned.id, book |-> Returned])
  /\ (call.active /\ last.op \in {"update", "safeUpdate"}) =>
       /\ Keys(Stored) = Keys(call.before)
       /\ Place(Stored, call.id) = Place(call.before, call.id)
  /\ (call.active /\ last.op \in {"delete", "safeDelete"}) =>
       Stored = Without(call.before, call.id)

\* a round of the menu loop has run and is being returned from
RanMenu == call.active /\ last.op = "menu"

\* C29: the menu loop keeps running after a ValidationError or
\* BookNotFoundError the store raised in a menu action: the error is shown as
\* a message and the menu comes again; the loop ends only on choice 7, and
\* an unrecognised choice returns to the menu.
C29_MenuLoopSurvivesErrors ==
  /\ cli.pc = "closed" => Trim(cli.choice) = <<"7">>
  /\ RanMenu =>
       /\ cli.raised # NoError =>
            /\ cli.raised.name \in {"ValidationError", "BookNotFoundError"}
            /\ cli.pc = "menu"
            /\ cli.msg \in {"Validation Error", "Book with id not found"}
            /\ Stored = call.before
       /\ Trim(cli.choice) # <<"7">> => cli.pc = "menu"
       /\ cli.action = "default" => (cli.pc = "menu" /\ cli.msg = "Invalid choice")

\* addBook was given the year -1, create raised a ValidationError, and the
\* menu is shown again
C29_Witness ==
  /\ RanMenu
  /\ cli.action = "addBook"
  /\ cli.yearText = <<"-", "1">>
  /\ cli.raised.name = "ValidationError"
  /\ cli.pc = "menu"

\* text is an integer numeral: an optional sign and one or more digits,
\* whitespace around them allowed
IsIntegerNumeral(text) ==
  LET t == Stripped(text)
      digits == IF t # <<>> /\ t[1] \in {"-", "+"} THEN Tail(t) ELSE t
  IN digits # <<>> /\ \A i \in 1..Len(digits) : digits[i] \in {"0", "1", "2"}

\* C30: the front-end turns away a year text that is not an integer numeral
\* before it calls the store: in addBook, updateBook (a year being entered)
\* and searchByYear, create, update and findByYear are then not called and
\* the store is as it was.
C30_NonNumericYearRejected ==
  (/\ RanMenu
   /\ cli.action \in {"addBook", "updateBook", "searchByYear"}
   /\ ~IsIntegerNumeral(cli.yearText)
   /\ cli.action = "updateBook" => Stripped(cli.yearText) # <<>>)
  => /\ cli.core \cap {"create", "update", "findByYear"} = {}
     /\ Stored = call.before

====
